---- MODULE Spec2Model ----
(***************************************************************************)
(* A model of aods.py: the build Context (sources, includes, dependencies, *)
(* flags, libs, name, compiler, build_dir), its mutation methods, and      *)
(* Context.build, which scans every source with the compiler and then      *)
(* writes the Makefile and <build_dir>/compile_commands.json.              *)
(*                                                                         *)
(* A Python str is modelled as a sequence of one-character strings, so     *)
(* that concatenation, join, strip, split and basename are computed.       *)
(***************************************************************************)
EXTENDS Integers, Sequences, FiniteSets, TLC

\* ------------------------------------------------------------- bounds
\* most items (sources, include directories, flag tokens, package names) the
\* add_* calls of one behaviour supply in total
MaxItems == 3

\* ------------------------------------------------------------- characters
SP == <<" ">>
NL == <<"\n">>
TAB == <<"\t">>
SLASH == <<"/">>
Whitespace == {" ", "\n", "\t"}

\* ------------------------------------------------------------- str helpers
Max(S) == CHOOSE x \in S : \A y \in S : y <= x
Min(S) == CHOOSE x \in S : \A y \in S : x <= y

IsPrefix(s, t) == Len(s) <= Len(t) /\ SubSeq(t, 1, Len(s)) = s

RECURSIVE Concat(_)
\* the concatenation of a list of strings
Concat(ss) == IF ss = <<>> THEN <<>> ELSE Head(ss) \o Concat(Tail(ss))

RECURSIVE join(_, _)
\* sep.join(ss)
join(sep, ss) ==
    IF ss = <<>> THEN <<>>
    ELSE IF Len(ss) = 1 THEN ss[1]
    ELSE ss[1] \o sep \o join(sep, Tail(ss))

RECURSIVE lstrip(_)
lstrip(s) == IF s # <<>> /\ Head(s) \in Whitespace THEN lstrip(Tail(s)) ELSE s

RECURSIVE rstrip(_)
rstrip(s) ==
    IF s # <<>> /\ s[Len(s)] \in Whitespace THEN rstrip(SubSeq(s, 1, Len(s) - 1)) ELSE s

\* str.strip()
strip(s) == rstrip(lstrip(s))

\* name.split(".")[0]
base_name(name) ==
    LET dots == {i \in 1..Len(name) : name[i] = "."}
    IN  IF dots = {} THEN name ELSE SubSeq(name, 1, Min(dots) - 1)

\* os.path.basename(path)
file_name(path) ==
    LET seps == {i \in 1..Len(path) : path[i] = "/"}
    IN  IF seps = {} THEN path ELSE SubSeq(path, Max(seps) + 1, Len(path))

\* ------------------------------------------------------------- inputs
\* source paths a caller passes to add_source
SourceNames == { <<"a", ".", "c">>, <<"d", "/", "b", ".", "x", ".", "c">> }
\* include directories a caller passes to add_include
IncludeNames == { <<"i">>, <<"j">> }
\* flag tokens a caller passes to add_flag (the empty string is a str too)
FlagTokens == { <<>>, <<"-", "g">>, <<"-", "O">> }
\* package names a caller passes to add_dependency
DepNames == { <<"z">>, <<"m">> }
\* values assigned to Context.name, Context.compiler, Context.build_dir
TargetNames == { <<"a", "p", "p">>, <<"t">> }
Compilers == { <<"c", "c">>, <<"g", "c", "c">> }
BuildDirs == { <<"b">>, <<"o", "/", "p">> }
\* sys.modules["__main__"].__file__ when it is set
MainPath == <<"/", "m", ".", "p", "y">>

\* a `str | list[str]` argument: a str, or a list of at most n strs
StrOrList(S, n) ==
    [is_str : {TRUE}, val : S]
        \cup [is_str : {FALSE}, val : UNION {[1..k -> S] : k \in 0..n}]

\* what subprocess.run returns: the exit status and the captured streams
PkgCflagsResults ==
    [returncode : {0, 1}, stdout : { <<>>, <<"-", "D", "\n">> }, stderr : {<<>>}]
PkgLibsResults ==
    [returncode : {0, 1}, stdout : { <<" ", "-", "l", "\n">> }, stderr : {<<>>}]
ScanResults ==
    [returncode : {0}, stdout : { <<"t", ":", "\n">>, <<"t", ":">> }, stderr : {<<>>}]
        \cup [returncode : {1}, stdout : {<<>>}, stderr : { <<"e">> }]

\* ------------------------------------------------------------- errors
NoErr == [kind |-> "none", text |-> <<>>]
\* Exception(f"`{pkg}` not installed!")
NotInstalled(pkg) == [kind |-> "not installed", text |-> pkg]
\* Exception("`pkg-config -cflags` failed")
CflagsFailed == [kind |-> "pkg-config -cflags failed", text |-> <<>>]
\* Exception("pkg-config -libs failed")
LibsFailed == [kind |-> "pkg-config -libs failed", text |-> <<>>]
\* Exception(f"failed making a makefile entry for `{source}`:\n{header.stderr}")
MakefileEntryFailed(source, stderr) ==
    [kind |-> "failed making a makefile entry", text |-> source \o NL \o stderr]
\* Exception("couldn't get this scripts name")
NoScriptName == [kind |-> "couldn't get this scripts name", text |-> <<>>]
\* the OSError open() raises when the directory of the file is missing
OpenFailed(path) == [kind |-> "open failed", text |-> path]

\* ------------------------------------------------------------- Context
\* Context.__init__ before the build_dir setter has run
NewContext(name, compiler, build_dir) ==
    [ _sources |-> <<>>, _includes |-> <<>>, _dependencies |-> <<>>,
      _flags |-> <<>>, _libs |-> <<>>,
      _name |-> name, _compiler |-> compiler, _build_dir |-> build_dir ]

\* `if isinstance(x, str): x = [x]`
as_list(arg) == IF arg.is_str THEN <<arg.val>> ELSE arg.val

\* make_dir: os.mkdir with every exception swallowed; mkdir_ok says whether
\* os.mkdir of an absent directory succeeds
make_dir(fs, dir, mkdir_ok) == IF dir \notin fs /\ mkdir_ok THEN fs \cup {dir} ELSE fs

\* add_source putting the new sources in front of the old ones
add_source_prepend(c, source) == [c EXCEPT !._sources = source \o @]

add_source(c, source) == [c EXCEPT !._sources = @ \o source]

add_include(c, include) == [c EXCEPT !._includes = @ \o include]

RECURSIVE add_flag(_, _)
add_flag(c, flag) ==
    IF flag = <<>> THEN c
    ELSE LET c1 == IF c._flags # <<>> THEN [c EXCEPT !._flags = @ \o SP] ELSE c
             c2 == [c1 EXCEPT !._flags = @ \o Head(flag)]
         IN  add_flag(c2, Tail(flag))

\* the index of the first name of dep whose `pkg-config --exists` fails, or 0
FirstMissing(dep, exists) ==
    LET bad == {i \in 1..Len(dep) : ~exists[i]}
    IN  IF bad = {} THEN 0 ELSE Min(bad)

\* add_dependency merging the batch's flags before it checks the names
add_dependency_merge_first(c, dep, exists, cflags, libs) ==
    LET c1 == [c EXCEPT !._dependencies = @ \o dep]
        missing == FirstMissing(dep, exists)
        c2 == IF c1._flags # <<>> THEN [c1 EXCEPT !._flags = @ \o SP] ELSE c1
        c3 == [c2 EXCEPT !._flags = @ \o strip(cflags.stdout)]
        c4 == [c3 EXCEPT !._libs = @ \o strip(libs.stdout)]
    IN  IF cflags.returncode # 0 THEN [ctx |-> c2, err |-> CflagsFailed]
        ELSE IF libs.returncode # 0 THEN [ctx |-> c3, err |-> LibsFailed]
        ELSE IF missing # 0 THEN [ctx |-> c4, err |-> NotInstalled(dep[missing])]
        ELSE [ctx |-> c4, err |-> NoErr]

\* add_dependency: the context it leaves and the exception it raises
add_dependency(c, dep, exists, cflags, libs) ==
    LET c1 == [c EXCEPT !._dependencies = @ \o dep]
        missing == FirstMissing(dep, exists)
        c2 == IF c1._flags # <<>> THEN [c1 EXCEPT !._flags = @ \o SP] ELSE c1
        c3 == [c2 EXCEPT !._flags = @ \o strip(cflags.stdout)]
        c4 == [c3 EXCEPT !._libs = @ \o strip(libs.stdout)]
    IN  IF missing # 0 THEN [ctx |-> c1, err |-> NotInstalled(dep[missing])]
        ELSE IF cflags.returncode # 0 THEN [ctx |-> c2, err |-> CflagsFailed]
        ELSE IF libs.returncode # 0 THEN [ctx |-> c3, err |-> LibsFailed]
        ELSE [ctx |-> c4, err |-> NoErr]

object_name(c, source) ==
    c._build_dir \o SLASH \o base_name(file_name(source)) \o <<".", "o">>

\* [f"-I{i}" for i in ctx._includes]
IncludeArgs(c) == [k \in 1..Len(c._includes) |-> <<"-", "I">> \o c._includes[k]]

\* the compile command with the -I arguments put before the flags
CompileCommand_includes_first(c, source) ==
    c._compiler \o <<" ", "-", "c", " ">> \o join(SP, IncludeArgs(c)) \o SP \o c._flags
        \o <<" ", "-", "o", " ">> \o object_name(c, source) \o SP \o source

\* the compile command mk_object formats
CompileCommand(c, source) ==
    c._compiler \o <<" ", "-", "c", " ">> \o c._flags \o SP \o join(SP, IncludeArgs(c))
        \o <<" ", "-", "o", " ">> \o object_name(c, source) \o SP \o source

\* mk_object without its check of the compiler's exit status
mk_object_unchecked(c, source, header) ==
    [err |-> NoErr, obj |-> <<header.stdout, CompileCommand(c, source), source>>]

\* mk_object: the (fragment, command, source) tuple, or the exception
mk_object(c, source, header) ==
    IF header.returncode # 0
    THEN [err |-> MakefileEntryFailed(source, header.stderr), obj |-> <<>>]
    ELSE [err |-> NoErr, obj |-> <<header.stdout, CompileCommand(c, source), source>>]

\* mk_executable: the (header, command) pair of the link rule
mk_executable(c) ==
    LET objs == [k \in 1..Len(c._sources) |-> object_name(c, c._sources[k])]
        target == c._build_dir \o SLASH \o c._name
    IN  << target \o <<":", " ">> \o join(SP, objs),
           c._compiler \o SP \o c._flags \o SP \o c._libs \o <<" ", "-", "o", " ">>
               \o target \o SP \o join(SP, objs) >>

\* the Makefile with the rule blocks written before the link rule
MakefileText_link_last(c, objs) ==
    LET exec == mk_executable(c)
    IN  Concat([k \in 1..Len(objs) |-> objs[k][1] \o TAB \o objs[k][2] \o NL])
            \o exec[1] \o NL \o TAB \o exec[2] \o NL

\* what build writes to the Makefile
MakefileText(c, objs) ==
    LET exec == mk_executable(c)
    IN  exec[1] \o NL \o TAB \o exec[2] \o NL
            \o Concat([k \in 1..Len(objs) |-> objs[k][1] \o TAB \o objs[k][2] \o NL])

\* the list with each source path reduced to its file name
CompileCommandsData_normalized(objs, directory) ==
    [k \in 1..Len(objs) |->
        [directory |-> directory, command |-> objs[k][2], file |-> file_name(objs[k][3])]]

\* the list build passes to json.dumps
CompileCommandsData(objs, directory) ==
    [k \in 1..Len(objs) |->
        [directory |-> directory, command |-> objs[k][2], file |-> objs[k][3]]]

\* f"{self.build_dir}/compile_commands.json"
CompileCommandsPath(c) ==
    c._build_dir \o SLASH \o <<"c", "c", ".", "j", "s", "o", "n">>

\* a file that does not exist
NoFile == [exists |-> FALSE, written |-> FALSE, content |-> <<>>]
\* open(path, "w"): the file exists and is empty, whatever it held
Opened(old) == [exists |-> TRUE, written |-> FALSE, content |-> <<>>]
\* open(path, "a") followed by one write of content
Appended(old, content) ==
    [exists |-> TRUE, written |-> TRUE, content |-> old.content \o content]

\* open(path, "w") followed by one write of content
Written(old, content) == [Opened(old) EXCEPT !.written = TRUE, !.content = content]

\* ------------------------------------------------------------- state
VARIABLES
    ctx,        \* the Context object's fields
    dirs,       \* the directories that exist, among BuildDirs
    makefile,   \* the file ./Makefile (content: its text)
    ccjson,     \* the file compile_commands.json (content: the dumped list)
    pc,         \* where build() is: "idle" (not running), "scan", "json"
    objects,    \* build's local list of mk_object results
    scanLog,    \* the dependency scans the running build() has issued
    lastCall,   \* the last completed call: name, argument, exception
    before,     \* ctx as it was when the last completed call started
    items,      \* items supplied to add_* calls so far
    built,      \* build() has been called
    hist,       \* what the successful add_* calls supplied, in call order, and
                \* whether every add_* call so far returned normally (clean)
    lastGen     \* the fragments of the last build(), if nothing was called since

vars == << ctx, dirs, makefile, ccjson, pc, objects, scanLog, lastCall, before,
           items, built, hist, lastGen >>

files == << makefile, ccjson >>

NoGen == [valid |-> FALSE, frags |-> <<>>]

Init ==
    \E mkdir_ok \in BOOLEAN :
        /\ ctx = NewContext(<<"a", "p", "p">>, <<"c", "c">>, <<"b">>)
        /\ dirs = make_dir({}, <<"b">>, mkdir_ok)
        /\ makefile = NoFile
        /\ ccjson = NoFile
        /\ pc = "idle"
        /\ objects = <<>>
        /\ scanLog = <<>>
        /\ lastCall = [op |-> "__init__", arg |-> <<>>, missing |-> FALSE, err |-> NoErr]
        /\ before = ctx
        /\ items = 0
        /\ built = FALSE
        /\ hist = [sources |-> <<>>, includes |-> <<>>, flags |-> <<>>, libs |-> <<>>,
                   clean |-> TRUE]
        /\ lastGen = NoGen

\* a call that supplies cost items can start: build() is not running (the
\* caller may have caught an exception of an earlier call and gone on)
CanCall(cost) == pc = "idle" /\ items + cost <= MaxItems

\* the bookkeeping every completed mutation call shares
Called(op, arg, cost, missing, err) ==
    /\ lastCall' = [op |-> op, arg |-> arg, missing |-> missing, err |-> err]
    /\ pc' = "idle"
    /\ items' = items + cost
    /\ before' = ctx
    /\ lastGen' = NoGen
    /\ UNCHANGED << files, objects, scanLog, built >>

\* ------------------------------------------------------------- setters
SetName(value) ==
    /\ CanCall(0)
    /\ ctx' = [ctx EXCEPT !._name = value]
    /\ Called("name", <<value>>, 0, FALSE, NoErr)
    /\ UNCHANGED << dirs, hist >>

SetCompiler(value) ==
    /\ CanCall(0)
    /\ ctx' = [ctx EXCEPT !._compiler = value]
    /\ Called("compiler", <<value>>, 0, FALSE, NoErr)
    /\ UNCHANGED << dirs, hist >>

SetBuildDir(value, mkdir_ok) ==
    /\ CanCall(0)
    /\ dirs' = make_dir(dirs, value, mkdir_ok)
    /\ ctx' = [ctx EXCEPT !._build_dir = value]
    /\ Called("build_dir", <<value>>, 0, FALSE, NoErr)
    /\ UNCHANGED hist

\* ------------------------------------------------------------- add_*
AddSource(arg) ==
    /\ CanCall(Len(as_list(arg)))
    /\ ctx' = add_source(ctx, as_list(arg))
    /\ hist' = [hist EXCEPT !.sources = @ \o as_list(arg)]
    /\ Called("add_source", as_list(arg), Len(as_list(arg)), FALSE, NoErr)
    /\ UNCHANGED dirs

AddInclude(arg) ==
    /\ CanCall(Len(as_list(arg)))
    /\ ctx' = add_include(ctx, as_list(arg))
    /\ hist' = [hist EXCEPT !.includes = @ \o as_list(arg)]
    /\ Called("add_include", as_list(arg), Len(as_list(arg)), FALSE, NoErr)
    /\ UNCHANGED dirs

AddFlag(arg) ==
    /\ CanCall(Len(as_list(arg)))
    /\ ctx' = add_flag(ctx, as_list(arg))
    /\ hist' = [hist EXCEPT !.flags = @ \o as_list(arg)]
    /\ Called("add_flag", as_list(arg), Len(as_list(arg)), FALSE, NoErr)
    /\ UNCHANGED dirs

\* exists[i] is the outcome of `pkg-config --exists` for the i-th name; a call
\* with an empty list counts as one item
AddDependency(arg, exists, cflags, libs) ==
    LET dep == as_list(arg)
        cost == IF dep = <<>> THEN 1 ELSE Len(dep)
        r == add_dependency(ctx, dep, exists, cflags, libs)
    IN  /\ CanCall(cost)
        /\ ctx' = r.ctx
        /\ hist' = IF r.err = NoErr
                   THEN [hist EXCEPT !.flags = Append(@, strip(cflags.stdout)),
                                     !.libs = Append(@, strip(libs.stdout))]
                   ELSE [hist EXCEPT !.clean = FALSE]
        /\ Called("add_dependency", dep, cost, \E i \in 1..Len(dep) : ~exists[i], r.err)
        /\ UNCHANGED dirs

\* ------------------------------------------------------------- build
\* what the compiler printed in each scan of a log
ScanOutputs(log) == [k \in 1..Len(log) |-> log[k].header.stdout]

\* the bookkeeping of build() returning or raising; its locals are dropped
Built(err) ==
    /\ pc' = "idle"
    /\ lastCall' = [op |-> "build", arg |-> <<>>, missing |-> FALSE, err |-> err]
    /\ lastGen' = IF err = NoErr THEN [valid |-> TRUE, frags |-> ScanOutputs(scanLog)]
                                 ELSE NoGen
    /\ objects' = <<>>
    /\ before' = ctx

\* build() is called
BuildBegin ==
    /\ pc = "idle"
    /\ built' = TRUE
    /\ pc' = "scan"
    /\ objects' = <<>>
    /\ scanLog' = <<>>
    /\ UNCHANGED << ctx, dirs, files, lastCall, before, items, hist, lastGen >>

\* one iteration of `[mk_object(self, source) for source in self._sources]`
BuildScan(header) ==
    LET source == ctx._sources[Len(objects) + 1]
        r == mk_object(ctx, source, header)
    IN  /\ pc = "scan"
        /\ Len(objects) < Len(ctx._sources)
        /\ scanLog' = Append(scanLog, [source |-> source, header |-> header])
        /\ IF r.err # NoErr
           THEN Built(r.err)
           ELSE /\ objects' = Append(objects, r.obj)
                /\ UNCHANGED << pc, lastCall, lastGen, before >>
        /\ UNCHANGED << ctx, dirs, files, items, built, hist >>

\* `with open("Makefile", "w") as mk:` and its writes
BuildWriteMakefile ==
    /\ pc = "scan"
    /\ Len(objects) = Len(ctx._sources)
    /\ makefile' = Written(makefile, MakefileText(ctx, objects))
    /\ pc' = "json"
    /\ UNCHANGED << ctx, dirs, ccjson, objects, scanLog, lastCall, before, items,
                    built, hist, lastGen >>

\* `with open(f"{self.build_dir}/compile_commands.json", "w") as j:` and its
\* write; has_main says whether root_dir() finds the script's path
BuildWriteCompileCommands(has_main) ==
    /\ pc = "json"
    /\ IF ctx._build_dir \notin dirs
       THEN /\ ccjson' = ccjson
            /\ Built(OpenFailed(CompileCommandsPath(ctx)))
       ELSE IF objects # <<>> /\ ~has_main
       THEN /\ ccjson' = Opened(ccjson)
            /\ Built(NoScriptName)
       ELSE /\ ccjson' = Written(ccjson, CompileCommandsData(objects, MainPath))
            /\ Built(NoErr)
    /\ UNCHANGED << ctx, dirs, makefile, scanLog, items, built, hist >>

\* ------------------------------------------------------------- specifications
\* the arguments a caller can still pass to an add_* method
Args(S) == StrOrList(S, MaxItems - items)

\* Spec is the whole program: every call, in any order. Its state space is
\* the product of everything below it, so each claim is checked under the
\* specification of the callers it speaks of: the same actions, fewer of them.
Next ==
    \/ \E v \in TargetNames : SetName(v)
    \/ \E v \in Compilers : SetCompiler(v)
    \/ \E v \in BuildDirs, ok \in BOOLEAN : SetBuildDir(v, ok)
    \/ \E a \in Args(SourceNames) : AddSource(a)
    \/ \E a \in Args(IncludeNames) : AddInclude(a)
    \/ \E a \in Args(FlagTokens) : AddFlag(a)
    \/ \E a \in Args(DepNames), cf \in PkgCflagsResults, lf \in PkgLibsResults :
           \E ex \in [1..Len(as_list(a)) -> BOOLEAN] : AddDependency(a, ex, cf, lf)
    \/ BuildBegin
    \/ \E h \in ScanResults : BuildScan(h)
    \/ BuildWriteMakefile
    \/ \E m \in BOOLEAN : BuildWriteCompileCommands(m)

Spec == Init /\ [][Next]_vars

\* a caller that only accumulates: the four add_* methods
NextAdd ==
    \/ \E a \in Args(SourceNames) : AddSource(a)
    \/ \E a \in Args(IncludeNames) : AddInclude(a)
    \/ \E a \in Args(FlagTokens) : AddFlag(a)
    \/ \E a \in Args(DepNames), cf \in PkgCflagsResults, lf \in PkgLibsResults :
           \E ex \in [1..Len(as_list(a)) -> BOOLEAN] : AddDependency(a, ex, cf, lf)

SpecAdd == Init /\ [][NextAdd]_vars

\* a caller that adds sources, includes and flags and then generates once
NextGen ==
    \/ ~built /\ \E a \in Args(SourceNames) : AddSource(a)
    \/ ~built /\ \E a \in Args(IncludeNames) : AddInclude(a)
    \/ ~built /\ \E a \in Args(FlagTokens) : AddFlag(a)
    \/ ~built /\ BuildBegin
    \/ \E h \in ScanResults : BuildScan(h)
    \/ BuildWriteMakefile
    \/ \E m \in BOOLEAN : BuildWriteCompileCommands(m)

SpecGen == Init /\ [][NextGen]_vars

\* a caller that adds sources and generates any number of times, in any order
NextRegen ==
    \/ \E a \in Args(SourceNames) : AddSource(a)
    \/ BuildBegin
    \/ \E h \in ScanResults : BuildScan(h)
    \/ BuildWriteMakefile
    \/ \E m \in BOOLEAN : BuildWriteCompileCommands(m)

SpecRegen == Init /\ [][NextRegen]_vars

\* a caller that reassigns the properties and generates
NextDir ==
    \/ \E v \in TargetNames : SetName(v)
    \/ \E v \in Compilers : SetCompiler(v)
    \/ \E v \in BuildDirs, ok \in BOOLEAN : SetBuildDir(v, ok)
    \/ BuildBegin
    \/ BuildWriteMakefile
    \/ \E m \in BOOLEAN : BuildWriteCompileCommands(m)

SpecDir == Init /\ [][NextDir]_vars

\* ------------------------------------------------------------- what the claims speak of
AddOps == {"add_source", "add_include", "add_flag", "add_dependency"}

\* the last call was op and returned normally
Returned(op) == lastCall.op = op /\ lastCall.err = NoErr

\* the last call was op and raised
Raised(op) == lastCall.op = op /\ lastCall.err # NoErr

\* the name of a source without its directories and without anything from
\* its first dot on, stated by what it is rather than by how it is computed
StemOf(source) ==
    LET n == Len(source)
        first == CHOOSE i \in 1..(n + 1) :
                     /\ i = 1 \/ source[i - 1] = "/"
                     /\ \A j \in i..n : source[j] # "/"
        last == CHOOSE j \in (first - 1)..n :
                    /\ j = n \/ source[j + 1] = "."
                    /\ \A k \in first..j : source[k] # "."
    IN  SubSeq(source, first, last)

\* <outputDir>/<base name of source>.o
ExpectedObject(source) == ctx._build_dir \o SLASH \o StemOf(source) \o <<".", "o">>

\* one -I<dir> per added include directory, in call order
ExpectedIncludeArgs == [k \in 1..Len(hist.includes) |-> <<"-", "I">> \o hist.includes[k]]

\* <compiler> -c <flags> <-I args> -o <object> <source>
ExpectedCommand(flags, source) ==
    ctx._compiler \o SP \o <<"-", "c">> \o SP \o flags \o SP \o join(SP, ExpectedIncludeArgs)
        \o SP \o <<"-", "o">> \o SP \o ExpectedObject(source) \o SP \o source

RECURSIVE DropLeadingEmpty(_)
\* a list of strings without the empty strings it starts with
DropLeadingEmpty(ss) ==
    IF ss # <<>> /\ Head(ss) = <<>> THEN DropLeadingEmpty(Tail(ss)) ELSE ss

\* a string without its spaces
WithoutSpaces(s) == Concat([k \in 1..Len(s) |-> IF s[k] = " " THEN <<>> ELSE <<s[k]>>])

\* what follows the prefix s in t
After(s, t) == SubSeq(t, Len(s) + 1, Len(t))

\* build() is running or has just returned or raised
InBuild == pc \in {"scan", "json"} \/ lastCall.op = "build"

\* the last call was a build() that returned normally
Generated == pc = "idle" /\ Returned("build")

\* ------------------------------------------------------------- C1
\* C1: when some name of the batch passed to add_dependency fails the
\* installed check, the call raises the not-installed error and _flags and
\* _libs are what they were before the call.
C1_BatchFailFast ==
    (lastCall.op = "add_dependency" /\ lastCall.missing)
        => /\ lastCall.err.kind = "not installed"
           /\ ctx._flags = before._flags
           /\ ctx._libs = before._libs

\* a batch of two whose first name is installed and whose second is not,
\* added to a context that already has flags
C1_Witness ==
    /\ lastCall.op = "add_dependency"
    /\ lastCall.missing
    /\ Len(lastCall.arg) = 2
    /\ lastCall.arg[1] # lastCall.arg[2]
    /\ lastCall.err = NotInstalled(lastCall.arg[2])
    /\ before._flags # <<>>

\* ------------------------------------------------------------- C2
\* C2: whenever add_dependency raises, the dependency list, _flags and _libs
\* are what they were before the call.
C2_NoPartialState ==
    Raised("add_dependency")
        => /\ ctx._dependencies = before._dependencies
           /\ ctx._flags = before._flags
           /\ ctx._libs = before._libs

\* ------------------------------------------------------------- C3
\* C3 as stated: every compile command build() computes is
\* <compiler> -c <flags> <-I args> -o <object> <source> with <flags> the added
\* flag tokens joined by single spaces in call order.
C3_CommandJoinsAllTokens ==
    pc \in {"scan", "json"}
        => \A k \in 1..Len(objects) :
               objects[k][2] = ExpectedCommand(join(SP, hist.flags), hist.sources[k])

\* C3 as amended: the same, with <flags> the added flag tokens joined by
\* single spaces in call order after the empty tokens added while no
\* non-empty token had been added yet are left out.
C3_CommandJoinsTokens ==
    pc \in {"scan", "json"}
        => \A k \in 1..Len(objects) :
               objects[k][2] =
                   ExpectedCommand(join(SP, DropLeadingEmpty(hist.flags)), hist.sources[k])

\* a command computed after two different non-empty flags were added
C3_Witness ==
    /\ pc = "json"
    /\ objects # <<>>
    /\ Len(hist.flags) = 2
    /\ hist.flags[1] # <<>>
    /\ hist.flags[2] # <<>>
    /\ hist.flags[1] # hist.flags[2]

\* ------------------------------------------------------------- C4
\* C4: after a successful build() the compilation database has one entry per
\* element of the source list, in the order added; entry i has the i-th
\* source string as supplied as its file and that source's compile command
\* as its command.
C4_DatabaseEntries ==
    Generated
        => /\ ccjson.exists /\ ccjson.written
           /\ Len(ccjson.content) = Len(hist.sources)
           /\ \A i \in 1..Len(hist.sources) :
                  /\ ccjson.content[i].file = hist.sources[i]
                  /\ ccjson.content[i].command = CompileCommand(ctx, hist.sources[i])

\* a database written for two sources, the first with a directory in its path
C4_Witness ==
    /\ Generated
    /\ Len(hist.sources) = 2
    /\ hist.sources[1] # file_name(hist.sources[1])
    /\ hist.sources[2] # hist.sources[1]

\* ------------------------------------------------------------- C5
\* the link rule's header line and command line
ExpectedLinkRule ==
    ctx._build_dir \o SLASH \o ctx._name \o <<":", " ">>
        \o join(SP, [k \in 1..Len(hist.sources) |-> ExpectedObject(hist.sources[k])])
        \o NL \o TAB \o mk_executable(ctx)[2] \o NL

\* the rule block of the i-th source: its fragment, then its command
ExpectedBlock(i) ==
    lastGen.frags[i] \o TAB \o CompileCommand(ctx, hist.sources[i]) \o NL

\* the Makefile: the link rule, then the blocks in source order
ExpectedMakefile ==
    ExpectedLinkRule \o Concat([i \in 1..Len(hist.sources) |-> ExpectedBlock(i)])

\* where in the Makefile the tab of the i-th block's command stands
CommandTab(i) ==
    Len(ExpectedLinkRule)
        + Len(Concat([j \in 1..(i - 1) |-> ExpectedBlock(j)]))
        + Len(lastGen.frags[i]) + 1

\* the i-th command is on a line of its own that starts with a tab
OnOwnTabbedLine(i) ==
    /\ makefile.content[CommandTab(i)] = "\t"
    /\ makefile.content[CommandTab(i) - 1] = "\n"

MakefileLayout ==
    /\ makefile.exists /\ makefile.written
    /\ Len(lastGen.frags) = Len(hist.sources)
    /\ makefile.content = ExpectedMakefile

\* C5 as stated: after a successful build() the Makefile is the link rule
\* followed by one block per source in source order, each the fragment
\* followed by the compile command on its own tab-indented line, for every
\* fragment the scan returns.
C5_CommandsOnOwnLines ==
    Generated => MakefileLayout /\ \A i \in 1..Len(hist.sources) : OnOwnTabbedLine(i)

\* C5 as amended: the same layout, each block being the fragment, a tab, the
\* compile command and a newline; the command is on its own tab-indented line
\* whenever the fragment ends with a newline.
C5_MakefileLayout ==
    Generated
        => /\ MakefileLayout
           /\ \A i \in 1..Len(hist.sources) :
                  (lastGen.frags[i] # <<>> /\ lastGen.frags[i][Len(lastGen.frags[i])] = "\n")
                      => OnOwnTabbedLine(i)

\* a Makefile written for two sources whose fragments end with a newline
C5_Witness ==
    /\ Generated
    /\ Len(hist.sources) = 2
    /\ hist.sources[1] # hist.sources[2]
    /\ \A i \in 1..2 : lastGen.frags[i][Len(lastGen.frags[i])] = "\n"

\* ------------------------------------------------------------- C6
\* C6: after add_flag and add_dependency calls whose contributions
\* are not empty and none of which raised, _flags is the contributions joined by single spaces in call
\* order and _libs is the batches' link-flag strings joined by single spaces
\* in call order.
C6_SpaceJoined ==
    (hist.clean /\ \A k \in 1..Len(hist.flags) : hist.flags[k] # <<>>)
        => /\ ctx._flags = join(SP, hist.flags)
           /\ ctx._libs = join(SP, hist.libs)

\* ------------------------------------------------------------- C7
\* the running build() is the second of two in a row and its scans printed
\* what the first one's did
SameScansAgain == lastGen.valid /\ lastGen.frags = ScanOutputs(scanLog)

\* one step of the program, as C7 has it
C7_Step ==
    /\ (pc = "scan" /\ pc' = "json" /\ SameScansAgain) => makefile' = makefile
    /\ (pc = "json" /\ Returned("build")' /\ SameScansAgain) => ccjson' = ccjson
    /\ (pc \in {"scan", "json"} \/ pc' = "scan") => ctx' = ctx

\* C7: a build() that follows a successful build() with nothing called in
\* between and the same scan outputs writes both files with the content
\* they had, and no step of build() changes a field of the context.
C7_Idempotent == [][C7_Step]_vars

\* a second build() in a row, of a context with sources, about to write the
\* database after the same scan outputs
C7_Witness ==
    /\ pc = "json"
    /\ SameScansAgain
    /\ objects # <<>>
    /\ makefile.written /\ ccjson.written

\* ------------------------------------------------------------- C8
\* C8: whenever build() can be called, the context's build_dir exists.
C8_OutputDirExists == pc = "idle" => ctx._build_dir \in dirs

\* ------------------------------------------------------------- C9
\* C9: after a successful add_* call the old _sources, _includes, _flags and
\* _libs are prefixes of the new ones, and what the call appended is what
\* the caller supplied, in the order supplied.
C9_AppendOnly ==
    (lastCall.op \in AddOps /\ lastCall.err = NoErr)
        => /\ IsPrefix(before._sources, ctx._sources)
           /\ IsPrefix(before._includes, ctx._includes)
           /\ IsPrefix(before._flags, ctx._flags)
           /\ IsPrefix(before._libs, ctx._libs)
           /\ Returned("add_source")
                  => After(before._sources, ctx._sources) = lastCall.arg
           /\ Returned("add_include")
                  => After(before._includes, ctx._includes) = lastCall.arg
           /\ Returned("add_flag")
                  => WithoutSpaces(After(before._flags, ctx._flags)) = Concat(lastCall.arg)

\* a list of two different sources added to a context that has a source
C9_Witness ==
    /\ Returned("add_source")
    /\ Len(lastCall.arg) = 2
    /\ lastCall.arg[1] # lastCall.arg[2]
    /\ before._sources # <<>>

\* ------------------------------------------------------------- C10
\* the scans issued so far are one per source, in source order, and only the
\* last of them can have failed
ScansInOrder ==
    /\ Len(scanLog) <= Len(ctx._sources)
    /\ \A k \in 1..Len(scanLog) :
           /\ scanLog[k].source = ctx._sources[k]
           /\ k < Len(scanLog) => scanLog[k].header.returncode = 0

\* every source has been scanned and every scan succeeded
AllScansDone ==
    /\ Len(scanLog) = Len(ctx._sources)
    /\ \A k \in 1..Len(scanLog) : scanLog[k].header.returncode = 0

\* one step of the program, as C10 has it
C10_Step ==
    /\ (makefile' # makefile \/ ccjson' # ccjson) => (InBuild /\ AllScansDone)
    /\ InBuild' => ScansInOrder'
    /\ (Len(scanLog') = Len(scanLog) + 1
            /\ scanLog'[Len(scanLog')].header.returncode # 0)
           => /\ pc' = "idle"
              /\ lastCall'.op = "build"
              /\ lastCall'.err =
                     MakefileEntryFailed(scanLog'[Len(scanLog')].source,
                                         scanLog'[Len(scanLog')].header.stderr)
              /\ makefile' = makefile
              /\ ccjson' = ccjson

\* C10: a file changes only once every source has been scanned successfully,
\* in source order; a scan that exits nonzero ends build() with the error
\* that carries the compiler's stderr, without a further scan and with both
\* files as they were.
C10_ScanBeforeWrite == [][C10_Step]_vars

\* a build() whose second scan failed while both files of an earlier build()
\* were on disk
C10_Witness ==
    /\ pc = "idle"
    /\ lastCall.op = "build"
    /\ Len(scanLog) = 2
    /\ scanLog[2].header.returncode # 0
    /\ makefile.written /\ ccjson.written

====
